---- MODULE Spec2Model ----
(***************************************************************************)
(* Turn-ownership handoff protocol of the EasySystem webhook handlers.     *)
(*                                                                         *)
(* Five variants of the handler module exist in the repository:            *)
(*   "Dotcom"       src/EasySystemDotcom.js                                *)
(*   "DotcomLegacy" src/unnamed/part_000                                   *)
(*   "SBA"          src/EasySystemSBA.js                                   *)
(*   "QuillSBA"     src/unnamed/part_001                                   *)
(*   "Quill"        src/unnamed/part_002                                   *)
(* One conversation is modelled.  A turn is one invocation of on_*; its    *)
(* synchronous segments (the code between two awaits) are the atomic       *)
(* steps, as the JavaScript run-to-completion rule makes them.  The        *)
(* circuit breaker's answers and the backend's HTTP outcomes are inputs.   *)
(*                                                                         *)
(* A text is a sequence of tokens; the token " " is white space, any other *)
(* token is a chunk of visible characters.  Undef stands for undefined or  *)
(* null.                                                                   *)
(***************************************************************************)
EXTENDS Naturals, Sequences, FiniteSets, TLC

VARIABLES
    variant,    \* which handler module is deployed
    data,       \* the turn object: data.message, data.agent_transfer and the session
    handler,    \* the on_* entry point of the current turn ("none" between turns)
    component,  \* componentName of an on_webhook turn
    pc,         \* the main continuation: idle, can, post, done
    call,       \* the backend call the main continuation is suspended in
    sends,      \* SDK deliveries and platform-callback invocations of the turn
    http,       \* POSTs issued by the main continuation in this turn
    brk,        \* circuit-breaker calls made by the main continuation in this turn
    invoked,    \* outcome callbacks (originalCallback) invoked in this turn
    save,       \* the fire-and-forget safeMessageSave task of the turn
    start,      \* the turn object as the handler received it
    turnNo      \* turns begun so far in this conversation

vars == <<variant, data, handler, component, pc, call, sends, http, brk,
          invoked, save, start, turnNo>>

-----------------------------------------------------------------------------
(* Bounds of the model *)

MaxMsgLen == 1
MaxTextLen == 1
MaxTurns == 1
\* how many of an entity's candidate source fields are considered (the later ones
\* are undefined)
MaxCandidates == 3

-----------------------------------------------------------------------------
(* Texts *)

Undef == <<"undefined">>

SeqsUpTo(S, n) == UNION {[1..k -> S] : k \in 0..n}

\* inbound data.message values
Messages == {Undef} \cup SeqsUpTo({" ", "hi"}, MaxMsgLen)

\* response.data.text values
Texts == {Undef} \cup SeqsUpTo({" ", "Found"}, MaxTextLen)

ContentTypes == {"undefined", "text/html"}

HoldMsg == <<"Please hold while I transfer you to an agent.">>
ExpertMsgSBA == <<"I am now connecting you with a staples expert">>
ExpertMsgLegacy == <<"I am now connecting you with a Staples Expert.">>
SorryMsg == <<"Sorry, unfortunately I'm not able to help you with that. Transferring you to a Staples Expert.">>
TrackingApology == <<"Sorry, I couldn't fetch your tracking details right now.">>
ReturnApology == <<"Sorry, I couldn't fetch your return status.">>

\* String.prototype.trim
RECURSIVE TrimLeft(_)
TrimLeft(s) == IF s # <<>> /\ Head(s) = " " THEN TrimLeft(Tail(s)) ELSE s

RECURSIVE TrimRight(_)
TrimRight(s) ==
    IF s # <<>> /\ s[Len(s)] = " " THEN TrimRight(SubSeq(s, 1, Len(s) - 1)) ELSE s

Trim(s) == TrimRight(TrimLeft(s))

\* JavaScript truthiness of a string-or-undefined value
Truthy(t) == t # Undef /\ t # <<>>

\* a || b on texts
OrElse(a, b) == IF Truthy(a) THEN a ELSE b

-----------------------------------------------------------------------------
(* The turn object and the backend's answers *)

Variants == {"Dotcom", "DotcomLegacy", "SBA", "QuillSBA", "Quill"}

Owners == {"kore", "easysystem"}

\* BotUserSession.businessUnit as the platform may deliver it ("" is empty or missing)
BusinessUnits == {"", " ", "C", "Q", "SA"}

\* componentName values the platform sends in this model: keys of webhookMap /
\* routeTable that reach each kind of integration, and one name no table holds
Components ==
    {"easySystemHook", "ReturnStatusHook", "CancelItemHook",
     "easySystemHookstore", "resetPasswordWebHook", "CheckReturnWebHook",
     "CancelItemWebHook", "UnmappedHook"}

\* the shape of data.context.session in a turn object: well formed, or lacking
\* UserSession or BotUserSession
SessionShapes == {"ok", "noUserSession", "noBotUserSession"}

\* the turn object as the platform hands it to a handler of a conversation whose
\* session holds owner o and business unit bu
FreshData(o, bu) ==
    [message |-> Undef, agent_transfer |-> FALSE, via_webhook |-> FALSE,
     status |-> "undefined", shape |-> "ok",
     owner |-> o, businessUnit |-> bu, transfer |-> FALSE,
     endConversationFromEasySystem |-> FALSE,
     endConversationFromEasySystema |-> FALSE,
     render |-> "undefined", renderr |-> Undef,
     trackOrder |-> Undef, returnStatus |-> Undef, content |-> "undefined",
     resetMessage |-> Undef, storeInfo |-> Undef]

\* what apiClient.post can produce: a response with data (the wire contract's four
\* fields), a response without data, or an exception
OkResponses ==
    [kind : {"ok"}, text : Texts, transfer : BOOLEAN, endConversation : BOOLEAN,
     contentType : ContentTypes]

NoData(k) ==
    [kind |-> k, text |-> Undef, transfer |-> FALSE, endConversation |-> FALSE,
     contentType |-> "undefined"]

FailKinds == {"non2xx", "timeout"}

Outcomes == OkResponses \cup {NoData(k) : k \in FailKinds \cup {"malformed"}}

\* response.data.conversationEnd: the wire contract has no such field
conversationEnd(resp) == FALSE

NoCall == [style |-> "none", key |-> "none", url |-> "none", phase |-> "none",
           integ |-> "none", cb |-> "none", text |-> Undef]

NoSave == [pc |-> "none", text |-> Undef, role |-> "none", cbs |-> "none",
           canExec |-> <<>>, posts |-> 0, okCb |-> 0, errCb |-> 0,
           recorded |-> <<>>, posted |-> <<>>]

-----------------------------------------------------------------------------
(* A synchronous segment works on x = [d, out, b, h, inv]: the turn object, the SDK   *)
(* deliveries, the breaker calls, the POSTs and the outcome callbacks invoked so far. *)

Delivery(x, api, cb) ==
    [api |-> api, cb |-> cb, message |-> x.d.message,
     agent_transfer |-> x.d.agent_transfer, owner |-> x.d.owner]

\* sdk.sendBotMessage / sendUserMessage / sendWebhookResponse (data, cb)
SdkSend(x, api, cb) == [x EXCEPT !.out = Append(@, Delivery(x, api, cb))]

\* callback(null, data), for the callback the integration was handed: the platform's,
\* part_001's script-mode wrapper (ack) or part_001's direct-send wrapper (a no-op)
InvokeCallback(x, cb) ==
    CASE cb = "platform" -> [x EXCEPT !.out = Append(@, Delivery(x, "callback", cb))]
      [] cb = "ack" ->
            SdkSend([x EXCEPT !.d.status = "success"], "sendWebhookResponse", "platform")
      [] OTHER -> x

BreakerCall(x, op, key, ans) ==
    [x EXCEPT !.b = Append(@, [op |-> op, key |-> key, ans |-> ans])]

IssuePost(x, c, text) ==
    [x EXCEPT !.h = Append(@, [url |-> c.url, text |-> text, style |-> c.style,
                               key |-> c.key, phase |-> c.phase, res |-> "pending",
                               transfer |-> FALSE, endConversation |-> FALSE,
                               rtext |-> Undef])]

PostReturned(x, resp) ==
    [x EXCEPT !.h[Len(x.h)].res = resp.kind,
              !.h[Len(x.h)].transfer = resp.transfer,
              !.h[Len(x.h)].endConversation = resp.endConversation,
              \* the text answered to the user's message or to an intent
              !.h[Len(x.h)].rtext = IF x.h[Len(x.h)].phase = "ctx"
                                    THEN Undef ELSE resp.text]

CallbackInvoked(x) == [x EXCEPT !.inv = @ \cup {Len(x.h)}]

\* the message triggerAgentTransfer leaves in data.message
TransferMessage(d, messageIfAny) ==
    CASE variant = "SBA" -> ExpertMsgSBA
      [] variant = "DotcomLegacy" ->
            IF messageIfAny # Undef /\ Trim(messageIfAny) # <<>>
            THEN Trim(messageIfAny) ELSE SorryMsg
      [] OTHER -> IF Truthy(messageIfAny) THEN messageIfAny ELSE d.message

\* a faulty hand-off that marks the transfer and leaves the owner as it was: C35
\* must notice it
triggerAgentTransfer_KeepsOwner(x, cb, messageIfAny) ==
    SdkSend([x EXCEPT !.d.message = TransferMessage(x.d, messageIfAny),
                      !.d.agent_transfer = TRUE,
                      !.d.transfer =
                          IF x.d.shape # "noBotUserSession" THEN TRUE ELSE @],
            "sendBotMessage", cb)

triggerAgentTransfer(x, cb, messageIfAny) ==
    SdkSend([x EXCEPT !.d.message = TransferMessage(x.d, messageIfAny),
                      !.d.agent_transfer = TRUE,
                      !.d.transfer =
                          IF x.d.shape # "noBotUserSession" THEN TRUE ELSE @,
                      !.d.owner =
                          IF x.d.shape # "noUserSession" THEN "kore" ELSE @],
            "sendBotMessage", cb)

\* handleAgentTransfer({response, data, callback, sdk}): sends on a truthy transfer
\* flag and returns to the caller either way
handleAgentTransfer(x, resp, cb) ==
    IF resp.transfer
    THEN SdkSend([x EXCEPT !.d.transfer = TRUE, !.d.owner = "kore",
                           !.d.agent_transfer = TRUE],
                 "sendBotMessage", cb)
    ELSE x

\* a faulty processEasySystemResponse that writes a misspelt owner: C20 must notice
\* it
processEasySystemResponse_Misspelt(x, resp) ==
    [x EXCEPT !.d.message = resp.text,
              !.d.owner = IF resp.transfer \/ resp.endConversation
                          THEN "kore" ELSE "easySystem"]

processEasySystemResponse(x, resp) ==
    LET d0 == [x.d EXCEPT !.message = resp.text]
        d1 == IF ~resp.transfer /\ ~resp.endConversation
              THEN [d0 EXCEPT !.owner = "easysystem"] ELSE d0
        d2 == IF resp.transfer
              THEN [d1 EXCEPT !.agent_transfer = TRUE,
                              !.transfer = IF variant = "Dotcom" THEN TRUE ELSE @,
                              !.owner = "kore"]
              ELSE d1
        d3 == IF resp.endConversation
              THEN [d2 EXCEPT !.endConversationFromEasySystem = TRUE, !.owner = "kore"]
              ELSE d2
    IN [x EXCEPT !.d = d3]

-----------------------------------------------------------------------------
(* Outcome handlers.  A handler either returns or throws: [x, threw]. *)

Ok(x) == [x |-> x, threw |-> FALSE]
Thrown(x) == [x |-> x, threw |-> TRUE]

\* a faulty callback that relays without taking the response text: C8 must notice it
UserMessageOutcome_KeepsMessage(x, resp, cb) ==
    IF resp.kind = "malformed" THEN Thrown(x)
    ELSE Ok(SdkSend(x, "sendUserMessage", cb))

\* on_user_message: the originalCallback handed to safeEasySystemCall
UserMessageOutcome(x, resp, cb) ==
    IF resp.kind = "malformed" THEN Thrown(x)   \* response.data.text of undefined
    ELSE LET x1 == [x EXCEPT !.d.message = resp.text] IN
         IF variant \in {"Dotcom", "DotcomLegacy"}
         THEN IF resp.transfer
              THEN Ok(SdkSend([x1 EXCEPT !.d.transfer = TRUE, !.d.owner = "kore",
                                         !.d.agent_transfer = TRUE],
                              "sendBotMessage", cb))
              ELSE IF resp.endConversation
              THEN Ok(SdkSend([x1 EXCEPT !.d.endConversationFromEasySystema = TRUE,
                                         !.d.owner = "kore"],
                              "sendUserMessage", cb))
              ELSE Ok(SdkSend(x1, "sendUserMessage", cb))
         ELSE IF conversationEnd(resp)
              THEN Ok(SdkSend([x1 EXCEPT !.d.owner = "kore"], "sendUserMessage", cb))
              ELSE Ok(SdkSend(x1, "sendUserMessage", cb))

\* the stash written by the script-mode integrations that store render / renderr
\* (Dotcom, and part_001's SBA-style handlers); res is response.data
StashRender(x, res, cb) ==
    LET d0 == [x.d EXCEPT
                 !.render = IF res.contentType # "undefined"
                            THEN res.contentType ELSE "text/plain",
                 !.renderr = OrElse(res.text, <<>>)]
        d1 == IF res.transfer
              THEN [d0 EXCEPT !.transfer = TRUE, !.agent_transfer = TRUE,
                              !.owner = "kore"]
              ELSE d0
        d2 == IF res.endConversation
              THEN [d1 EXCEPT !.endConversationFromEasySystem = TRUE, !.owner = "kore"]
              ELSE d1
    IN InvokeCallback([x EXCEPT !.d = [d2 EXCEPT !.owner = "kore"]], cb)

\* the .catch fallback of those integrations
StashFallback(x, integ, cb) ==
    InvokeCallback(
        [x EXCEPT !.d.render = "text/plain",
                  !.d.renderr = IF integ = "Check_Return"
                                THEN ReturnApology ELSE TrackingApology,
                  !.d.owner = "kore"],
        cb)

\* SBA's script-mode integrations: the .then of the direct apiClient.post
StashSBA(x, integ, resp, cb) ==
    IF resp.kind = "malformed" THEN Thrown(x)   \* response.data.text of undefined
    ELSE LET d0 == IF integ = "Check_Return"
                   THEN [x.d EXCEPT !.returnStatus = resp.text,
                                    !.content = resp.contentType]
                   ELSE [x.d EXCEPT !.trackOrder = resp.text,
                                    !.content = resp.contentType]
         IN IF resp.transfer
            THEN Ok(SdkSend([x EXCEPT !.d = [d0 EXCEPT !.transfer = TRUE,
                                                       !.owner = "kore",
                                                       !.agent_transfer = TRUE]],
                            "sendBotMessage", cb))
            ELSE IF resp.endConversation
            THEN Ok(InvokeCallback(
                      [x EXCEPT !.d = [d0 EXCEPT !.endConversationFromEasySystem = TRUE,
                                                 !.owner = "kore"]], cb))
            ELSE Ok(InvokeCallback([x EXCEPT !.d = [d0 EXCEPT !.owner = "kore"]], cb))

\* the Quill-style package_tracking_handover callback (part_001 for Q and C, part_002);
\* its own try/catch turns a throw into triggerAgentTransfer
StashQuill(x, resp, cb) ==
    IF resp.kind = "malformed"
    THEN triggerAgentTransfer(x, cb, HoldMsg)   \* responseData.text of undefined
    ELSE LET x1 == processEasySystemResponse(x, resp) IN
         IF resp.transfer \/ x1.d.agent_transfer
         THEN SdkSend([x1 EXCEPT !.d.transfer = TRUE], "sendBotMessage", cb)
         ELSE IF resp.endConversation
         THEN SdkSend([x1 EXCEPT !.d.endConversationFromEasySystem = TRUE],
                      "sendUserMessage", cb)
         ELSE SdkSend(x1, "sendUserMessage", cb)

\* part_000: the onSuccess of each integration run through runESFlow
LegacyOutcome(x, integ, resp, cb) ==
    IF resp.kind = "malformed" THEN Thrown(x)   \* response.data.text of undefined
    ELSE LET d1 ==
               CASE integ = "package_tracking_handover" ->
                        [x.d EXCEPT !.trackOrder = resp.text,
                                    !.content = resp.contentType,
                                    !.owner = "easysystem"]
                 [] integ = "finding_near_estore" ->
                        [x.d EXCEPT !.storeInfo = resp.text,
                                    !.content = resp.contentType]
                 [] integ = "reset_password" ->
                        [x.d EXCEPT !.resetMessage = resp.text,
                                    !.content = resp.contentType]
                 [] integ = "Check_Return" ->
                        [x.d EXCEPT !.returnStatus = resp.text,
                                    !.content = resp.contentType]
                 [] OTHER -> [x.d EXCEPT !.message = resp.text]
         IN Ok(SdkSend(handleAgentTransfer([x EXCEPT !.d = d1], resp, cb),
                       "sendUserMessage", cb))

\* Dotcom: the inline callback of every direct-send integration
DotcomDirectOutcome(x, resp, cb) ==
    IF resp.kind = "malformed" THEN Thrown(x)   \* response.data.text of undefined
    ELSE Ok(SdkSend(handleAgentTransfer([x EXCEPT !.d.message = resp.text], resp, cb),
                    "sendUserMessage", cb))

\* SBA and part_001: handleEasySendOutcome_Direct(tag, data, responseData, callback),
\* responseData being res.data (undefined for a response without data)
handleEasySendOutcome_Direct(x, resp, cb) ==
    LET x1 == [x EXCEPT !.d.message = OrElse(resp.text, <<>>)]
        handoffMsg == OrElse(resp.text, HoldMsg)
    IN IF resp.kind = "malformed"
       THEN Thrown(x1)   \* processEasySystemResponse reads responseData.text
       ELSE IF resp.transfer
       THEN IF variant = "SBA"
            THEN IF x1.d.via_webhook
                 THEN Ok(InvokeCallback([x1 EXCEPT !.d.transfer = TRUE,
                                                   !.d.agent_transfer = TRUE,
                                                   !.d.owner = "kore"], cb))
                 ELSE Ok(triggerAgentTransfer([x1 EXCEPT !.d.transfer = TRUE], cb,
                                              handoffMsg))
            ELSE Ok(SdkSend([x1 EXCEPT !.d.transfer = TRUE,
                                       !.d.agent_transfer = TRUE,
                                       !.d.owner = "kore"],
                            "sendBotMessage", cb))
       ELSE LET x2 == IF resp.endConversation
                      THEN [x1 EXCEPT !.d.endConversationFromEasySystem = TRUE,
                                      !.d.owner = "kore"]
                      ELSE x1
            IN Ok(SdkSend(processEasySystemResponse(x2, resp), "sendUserMessage", cb))

handleEasySendError_Direct(x, cb) ==
    SdkSend([x EXCEPT !.d.message = HoldMsg,
                      !.d.agent_transfer = TRUE,
                      !.d.transfer = TRUE,
                      !.d.owner = "kore"],
            "sendUserMessage", cb)

-----------------------------------------------------------------------------
(* Dispatch *)

\* webhookMap (Dotcom, SBA, part_001) and routeTable (part_000): the integration a
\* component name routes to, "none" when the table has no such key or integrations
\* has no such function
SbaMap(comp) ==
    CASE comp = "easySystemHook" -> "package_tracking_handover"
      [] comp = "CancelItemHook" -> "Cancel_item"
      [] comp = "CancelEntireHook" -> "Cancel_Entire_order"
      [] comp = "RefundHook" -> "Refund_Check"
      [] comp = "ReturnStatusHook" -> "Check_Return"
      [] comp = "ExchangeHook" -> "Exchange_Item"
      [] comp = "ShippingHook" -> "change_shipping_address"
      [] comp = "ExistingHook" -> "manage_existing_users"
      [] comp = "NewHook" -> "add_new_user_handler"
      [] comp = "easyInvoiceHook" -> "invoice_or_packing_slip"
      [] comp = "ModifyHook" -> "modify_shipping_location"
      [] comp = "ResetHook" -> "reset_password_handler"
      [] comp = "AccountHook" -> "account_id_handler"
      [] comp = "MissingHook" -> "missing_item"
      [] OTHER -> "none"

LegacyMap(comp) ==
    CASE comp = "easySystemHook" -> "package_tracking_handover"
      [] comp = "easySystemAddressChange" -> "change_shipping_address"
      [] comp = "easySystemHookstore" -> "finding_near_estore"
      [] comp = "resetPasswordWebHook" -> "reset_password"
      [] comp = "CheckReturnWebHook" -> "Check_Return"
      [] comp = "ExchangeWebHook" -> "Exchange_Item"
      [] comp = "RefundWebHook" -> "Refund_Check"
      [] comp = "CancelEntireOrderWebHook" -> "Cancel_Entire_order"
      [] comp = "CancelItemWebHook" -> "Cancel_item"
      [] OTHER -> "none"

webhookMap(comp) ==
    CASE variant = "DotcomLegacy" -> LegacyMap(comp)
      [] variant = "QuillSBA" ->
            \* easySystemHook maps to "easySystemHook", which integrations lacks
            IF comp = "easySystemHook" THEN "none" ELSE SbaMap(comp)
      [] variant = "Quill" -> "none"
      [] OTHER -> SbaMap(comp)

SCRIPT_MODE == {"package_tracking_handover", "Check_Return"}

\* the instruction text an integration posts: its template with the order number and
\* zip code of data.context in it
orderNumber == "<orderNumber>"
zipCode == "<zipCode>"

RequestText(integ) ==
    CASE integ = "package_tracking_handover" ->
            <<"can you help me track my order? My order number is", orderNumber,
              "and zip code is", zipCode>>
      [] integ = "Check_Return" ->
            <<"Check the status for Return an order with order number", orderNumber,
              "and ZipCode", zipCode>>
      [] integ = "Cancel_item" ->
            <<"Cancel Item having Order Number", orderNumber, "and ZipCode", zipCode>>
      [] integ = "Cancel_Entire_order" ->
            <<"Cancel the Entire Order having Order Number", orderNumber,
              "and ZipCode", zipCode>>
      [] integ = "change_shipping_address" /\ variant = "DotcomLegacy" ->
            <<"Change my shipping address having order number", orderNumber,
              "and zip code is", zipCode>>
      [] integ = "reset_password" /\ variant = "DotcomLegacy" ->
            <<"Reset the password">>
      [] integ = "finding_near_estore" ->
            <<"Directly give all the information about three nearest store based on this zip code:",
              zipCode>>
      [] OTHER -> <<integ>>

Done(x) == [x |-> x, pc |-> "done", call |-> NoCall]
Suspend(x, c, at) == [x |-> x, pc |-> at, call |-> c]

SendCall(style, integ, cb) ==
    [style |-> style, key |-> "easysystem-send-api", url |-> "sendMessage",
     phase |-> "intent", integ |-> integ, cb |-> cb, text |-> RequestText(integ)]

ContextCall(style, integ, cb) ==
    [style |-> style, key |-> "easysystem-context-api", url |-> "contextLoad",
     phase |-> "ctx", integ |-> integ, cb |-> cb, text |-> Undef]

\* integrations[integ](data, cb), up to its first await
StartIntegration(x, integ, cb) ==
    LET direct == SendCall("direct", integ, cb) IN
    CASE variant \in {"Dotcom", "DotcomLegacy", "Quill"} ->
            Suspend(x, SendCall("safe", integ, cb), "can")
      [] variant = "SBA" ->
            IF integ \in SCRIPT_MODE
            THEN Suspend(IssuePost(x, direct, direct.text), direct, "post")
            ELSE Suspend(x, SendCall("easySend", integ, cb), "can")
      [] variant = "QuillSBA" ->
            IF integ = "Check_Return"
               \/ (integ = "package_tracking_handover" /\ x.d.businessUnit = "SA")
            THEN Suspend(IssuePost(x, direct, direct.text), direct, "post")
            ELSE IF integ = "package_tracking_handover"
            THEN Suspend(x, SendCall("safe", integ, cb), "can")
            ELSE Suspend(x, SendCall("easySend", integ, cb), "can")

\* the originalCallback of a successful safeEasySystemCall, by the place that made
\* the call: [r, threw], r being where the main continuation is afterwards
\*   "absent": part_001 / part_002 pass six arguments for C and SA, so the seventh,
\*   originalCallback, is undefined and calling it throws
OriginalCallback(x0, c, resp) ==
    LET ran(t) == [r |-> Done(t.x), threw |-> t.threw]
        x == CallbackInvoked(x0)
    IN
    CASE c.phase = "user" -> ran(UserMessageOutcome(x, resp, c.cb))
      [] c.phase = "ctx" /\ c.integ = "absent" -> [r |-> Done(x0), threw |-> TRUE]
      [] c.phase = "ctx" /\ c.integ = "then" -> [r |-> Done(x), threw |-> FALSE]
      [] c.phase = "ctx" ->
            [r |-> StartIntegration(x, c.integ, c.cb), threw |-> FALSE]
      [] variant = "Dotcom" ->
            IF c.integ \in SCRIPT_MODE
            THEN IF resp.kind = "malformed"
                 THEN ran(Thrown(x))   \* response.data.contentType of undefined
                 ELSE ran(Ok(StashRender(x, resp, c.cb)))
            ELSE ran(DotcomDirectOutcome(x, resp, c.cb))
      [] variant = "DotcomLegacy" -> ran(LegacyOutcome(x, c.integ, resp, c.cb))
      [] OTHER -> ran(Ok(StashQuill(x, resp, c.cb)))

-----------------------------------------------------------------------------
(* safeEasySystemCall, easySendText, sendContextToEasySystem and the direct posts *)

\* the service key safeEasySystemCall hands to recordSuccess / recordFailure
RecordKey(key) ==
    IF variant \in {"SBA", "QuillSBA", "Quill"} THEN "easysystem-api" ELSE key

\* what is chained on the promise safeEasySystemCall returns: part_001 and part_002
\* start the tracking integration in the .then of the business unit Q context call
AfterSafeResolved(x, c) ==
    IF c.phase = "ctx" /\ c.integ = "then"
    THEN StartIntegration(x, "package_tracking_handover", c.cb)
    ELSE Done(x)

\* the text an error object or an HTTP error response carries
ErrorText == <<"<error.message>">>

\* a faulty catch block that shows the user the text of the error: C21 must notice
\* it
SafeCatch_RawError(x, c) ==
    triggerAgentTransfer(BreakerCall(x, "recordFailure", RecordKey(c.key), TRUE),
                         c.cb, ErrorText)

\* safeEasySystemCall: the catch block
SafeCatch(x, c) ==
    triggerAgentTransfer(BreakerCall(x, "recordFailure", RecordKey(c.key), TRUE),
                         c.cb, HoldMsg)

\* a faulty transfer branch that sends the hand-off and sets no flag: C10 must
\* notice it
SafeEscalate_SendOnly(x, c, resp) == SdkSend(x, "sendBotMessage", c.cb)

\* safeEasySystemCall: response.data.transfer === true || data.agent_transfer === true
SafeEscalate(x, c, resp) ==
    IF variant = "DotcomLegacy"
    THEN triggerAgentTransfer(
             [x EXCEPT !.d.message =
                 IF Truthy(resp.text) THEN OrElse(Trim(resp.text), SorryMsg)
                 ELSE SorryMsg],
             c.cb, ExpertMsgLegacy)
    ELSE triggerAgentTransfer(x, c.cb, resp.text)

\* a faulty dispatch that posts the intent without awaiting the context push: C26
\* must notice it
BreakerStep_IntentFirst(x, c, ans) ==
    LET x1 == BreakerCall(x, "canExecute", c.key, ans)
        i == SendCall("direct", c.integ, c.cb)
    IN IF c.phase = "ctx"
       THEN Suspend(IssuePost(IssuePost(x1, i, i.text), c, c.text), c, "post")
       ELSE Suspend(IssuePost(x1, c, c.text), c, "post")

\* the segment that runs when the breaker has answered canExecute
BreakerStep(x, c, ans) ==
    LET x1 == BreakerCall(x, "canExecute", c.key, ans) IN
    IF ans THEN Suspend(IssuePost(x1, c, c.text), c, "post")
    ELSE CASE c.style = "safe" ->
                 AfterSafeResolved(triggerAgentTransfer(x1, c.cb, HoldMsg), c)
           [] c.style = "easySend" ->
                 Done(handleEasySendError_Direct(
                          BreakerCall(x1, "recordFailure", c.key, TRUE), c.cb))
           [] OTHER -> StartIntegration(x1, c.integ, c.cb)

SafeReturn(x1, c, resp) ==
    IF resp.kind \in FailKinds THEN AfterSafeResolved(SafeCatch(x1, c), c)
    ELSE LET x2 == BreakerCall(x1, "recordSuccess", RecordKey(c.key), TRUE) IN
         IF (resp.kind = "ok" /\ resp.transfer) \/ x2.d.agent_transfer
         THEN AfterSafeResolved(SafeEscalate(x2, c, resp), c)
         ELSE LET o == OriginalCallback(x2, c, resp) IN
              IF o.threw THEN AfterSafeResolved(SafeCatch(o.r.x, c), c)
              ELSE IF o.r.pc = "done" THEN AfterSafeResolved(o.r.x, c)
              ELSE o.r

EasySendReturn(x1, c, resp) ==
    IF resp.kind \in FailKinds
    THEN Done(handleEasySendError_Direct(
                  BreakerCall(x1, "recordFailure", c.key, TRUE), c.cb))
    ELSE LET o == handleEasySendOutcome_Direct(
                      BreakerCall(x1, "recordSuccess", c.key, TRUE), resp, c.cb)
         IN IF o.threw THEN Done(handleEasySendError_Direct(o.x, c.cb))
            ELSE Done(o.x)

\* the script-mode integrations that post with apiClient directly
DirectReturn(x1, c, resp) ==
    IF variant = "SBA"
    THEN IF resp.kind \in FailKinds
         THEN Done(triggerAgentTransfer(x1, c.cb, HoldMsg))
         ELSE LET o == StashSBA(x1, c.integ, resp, c.cb) IN
              IF o.threw THEN Done(triggerAgentTransfer(o.x, c.cb, HoldMsg))
              ELSE Done(o.x)
    ELSE IF resp.kind \in FailKinds
         THEN Done(StashFallback(x1, c.integ, c.cb))
         ELSE Done(StashRender(x1, resp, c.cb))   \* res = response.data || {}

\* sendContextToEasySystem(data).finally(...)
ContextSendReturn(x1, c, resp) ==
    StartIntegration(
        BreakerCall(x1, IF resp.kind \in FailKinds THEN "recordFailure"
                        ELSE "recordSuccess", c.key, TRUE),
        c.integ, c.cb)

\* the segment that runs when apiClient.post has settled
HttpStep(x, c, resp) ==
    LET x1 == PostReturned(x, resp) IN
    CASE c.style = "safe" -> SafeReturn(x1, c, resp)
      [] c.style = "easySend" -> EasySendReturn(x1, c, resp)
      [] c.style = "direct" -> DirectReturn(x1, c, resp)
      [] OTHER -> ContextSendReturn(x1, c, resp)

-----------------------------------------------------------------------------
(* The handlers *)

Cur == [d |-> data, out |-> sends, b |-> brk, h |-> http, inv |-> invoked]

Commit(r) ==
    /\ data' = r.x.d
    /\ sends' = r.x.out
    /\ brk' = r.x.b
    /\ http' = r.x.h
    /\ invoked' = r.x.inv
    /\ pc' = r.pc
    /\ call' = r.call

\* the platform invokes a handler: one turn at a time in this conversation
Begin(h, comp, d0) ==
    /\ pc = "idle"
    /\ turnNo < MaxTurns
    /\ handler' = h
    /\ component' = comp
    /\ start' = d0
    /\ turnNo' = turnNo + 1
    /\ UNCHANGED variant

\* the two guards at the top of on_user_message and on_bot_message
BusinessUnitMissing(d) ==
    \/ d.businessUnit = ""
    \/ variant = "SBA" /\ Trim(<<d.businessUnit>>) = <<>>

\* a faulty guard that forgets the trim: C6 must notice it
MessageMissing_NoTrim(d) == ~Truthy(d.message)

MessageMissing(d) == ~Truthy(d.message) \/ Trim(d.message) = <<>>

\* a faulty owner test (assignment for comparison): C7 must notice it
BackendOwns_Always(d) == TRUE

\* session_owner === "easysystem"
BackendOwns(d) == d.owner = "easysystem"

\* safeMessageSave, up to its first await: canExecute("easysystem-save-api") has been
\* asked.  cbs tells what callbacks the caller passed: "none", "safe" (the error
\* callback reads err?.message) or "unsafe" (it reads error.response)
\* a faulty save that files every utterance under the role "user": C29 must
\* notice it
safeMessageSave_AsUser(text, role, cbs) ==
    [NoSave EXCEPT !.pc = "can", !.text = text, !.role = "user", !.cbs = cbs]

safeMessageSave(text, role, cbs) ==
    [NoSave EXCEPT !.pc = "can", !.text = text, !.role = role, !.cbs = cbs]

SaveCallbacks(branch) ==
    CASE variant = "SBA" -> "none"
      [] variant \in {"QuillSBA", "Quill"} /\ branch = "kore" -> "unsafe"
      [] OTHER -> "safe"

\* a faulty catch block that swallows the exception and sends nothing: C16 must
\* notice it
HandlerCatch_Silent(x) == x

\* the catch block of on_user_message, on_bot_message and on_webhook
HandlerCatch(x) == triggerAgentTransfer(x, "platform", HoldMsg)

UserCall(m) ==
    [style |-> "safe", key |-> "easysystem-send-api", url |-> "sendMessage",
     phase |-> "user", integ |-> "none", cb |-> "platform", text |-> m]

on_client_event ==
    /\ Begin("on_client_event", "none", data)
    /\ Commit(Done(InvokeCallback(Cur, "platform")))
    /\ UNCHANGED save

on_event ==
    /\ Begin("on_event", "none", data)
    /\ Commit(Done(InvokeCallback(Cur, "platform")))
    /\ UNCHANGED save

on_user_message(m, shape) ==
    LET d0 == [data EXCEPT !.message = m, !.shape = shape]
        x0 == [Cur EXCEPT !.d = d0]
    IN /\ Begin("on_user_message", "none", d0)
       /\ IF shape # "ok"   \* reading UserSession.owner or BotUserSession.businessUnit
          THEN /\ Commit(Done(HandlerCatch(x0)))
               /\ UNCHANGED save
          ELSE IF BusinessUnitMissing(d0) \/ MessageMissing(d0)
          THEN /\ Commit(Done(SdkSend(x0, "sendBotMessage", "platform")))
               /\ UNCHANGED save
          ELSE IF BackendOwns(d0)
          THEN /\ save' = safeMessageSave(m, "user", SaveCallbacks("easysystem"))
               /\ Commit(Suspend(x0, UserCall(m), "can"))
          ELSE /\ save' = safeMessageSave(m, "user", SaveCallbacks("kore"))
               /\ Commit(Done(SdkSend(x0, "sendBotMessage", "platform")))

on_bot_message(m, shape) ==
    LET d0 == [data EXCEPT !.message = m, !.shape = shape]
        x0 == [Cur EXCEPT !.d = d0]
    IN /\ Begin("on_bot_message", "none", d0)
       /\ IF shape # "ok"   \* reading UserSession.owner or BotUserSession.businessUnit
          THEN /\ Commit(Done(HandlerCatch(x0)))
               /\ UNCHANGED save
          ELSE IF BusinessUnitMissing(d0) \/ MessageMissing(d0)
          THEN /\ Commit(Done(SdkSend(x0, "sendUserMessage", "platform")))
               /\ UNCHANGED save
          ELSE IF BackendOwns(d0)
          THEN /\ Commit(Done(x0))   \* blocked by the owner check: nothing is sent
               /\ UNCHANGED save
          ELSE /\ save' = safeMessageSave(m, "assistant", SaveCallbacks("kore"))
               /\ Commit(Done(SdkSend(x0, "sendUserMessage", "platform")))

\* a faulty on_webhook that pushes the context whatever the component and the
\* business unit are: C30 must notice it
WebhookStart_NoRouteCheck(x, comp) ==
    Suspend(x, ContextCall("safe", "package_tracking_handover", "platform"), "can")

\* on_webhook, up to its first await
WebhookStart(x, comp) ==
    LET bu == x.d.businessUnit
        integ == webhookMap(comp)
        pass == Done(SdkSend(x, "sendWebhookResponse", "platform"))
        viaWebhook == [x EXCEPT !.d.via_webhook = TRUE]
    IN
    CASE variant = "Dotcom" ->
            IF bu # "C" THEN pass
            ELSE IF integ = "none" THEN Done(InvokeCallback(x, "ack"))
            ELSE IF integ \in SCRIPT_MODE
            THEN Suspend(viaWebhook, ContextCall("safe", integ, "platform"), "can")
            ELSE Suspend(x, ContextCall("safe", integ, "platform"), "can")
      [] variant = "DotcomLegacy" ->
            IF bu # "C" \/ integ = "none" THEN pass
            ELSE Suspend(x, ContextCall("safe", integ, "platform"), "can")
      [] variant = "SBA" ->
            IF integ = "none" THEN pass
            ELSE Suspend(x, ContextCall("safe", integ, "platform"), "can")
      [] comp = "easySystemHook" /\ bu = "Q" ->
            Suspend(x, ContextCall("safe", "then", "platform"), "can")
      [] comp = "easySystemHook" /\ bu \in {"C", "SA"} ->
            Suspend(x, ContextCall("safe", "absent", "platform"), "can")
      [] variant = "QuillSBA" /\ integ # "none" ->
            IF integ \in SCRIPT_MODE
            THEN Suspend(viaWebhook, ContextCall("ctxSend", integ, "ack"), "can")
            ELSE Suspend(x, ContextCall("ctxSend", integ, "ignore"), "can")
      [] OTHER -> pass

\* shape is "ok" or "noBotUserSession": the handler reads
\* BotUserSession.conversationSessionId first and does not read UserSession
on_webhook(comp, shape) ==
    LET d0 == [data EXCEPT !.shape = shape]
        x0 == [Cur EXCEPT !.d = d0]
    IN /\ Begin("on_webhook", comp, d0)
       /\ IF shape # "ok"
          THEN Commit(Done(HandlerCatch(x0)))
          ELSE Commit(WebhookStart(x0, comp))
       /\ UNCHANGED save

\* circuitBreaker.canExecute answers the main continuation
\* a faulty continuation that awaits the transcript save before it goes on: C18
\* must notice it
BreakerAnswers_AwaitsSave(ans) ==
    /\ save.pc \in {"none", "done"}
    /\ pc = "can"
    /\ Commit(BreakerStep(Cur, call, ans))
    /\ UNCHANGED <<variant, handler, component, save, start, turnNo>>

BreakerAnswers(ans) ==
    /\ pc = "can"
    /\ Commit(BreakerStep(Cur, call, ans))
    /\ UNCHANGED <<variant, handler, component, save, start, turnNo>>

\* apiClient.post settles for the main continuation
HttpReturns(resp) ==
    /\ pc = "post"
    /\ Commit(HttpStep(Cur, call, resp))
    /\ UNCHANGED <<variant, handler, component, save, start, turnNo>>

\* circuitBreaker.canExecute("easysystem-save-api") answers safeMessageSave
\* a faulty error callback that escalates a failed save: C17 must notice it
SaveErrorCallback_Escalates(d) == [d EXCEPT !.agent_transfer = TRUE, !.owner = "kore"]

\* the errorCallback the handlers hand to safeMessageSave: it logs and leaves the
\* turn object alone
SaveErrorCallback(d) == d

\* a faulty save that reads the text from the turn object when it posts: C38 must
\* notice it
SavePostBody_ReadsTurn(s, d) == d.message

\* the text of the messageSaveData object handed to safeMessageSave, which is what
\* the save posts
SavePostBody(s, d) == s.text

SaveBreakerAnswers(ans) ==
    /\ save.pc = "can"
    /\ save' =
         LET s1 == [save EXCEPT !.canExec = Append(@, ans)]
             \* apiClient.post(url, messageSaveData, ...), with data.message as it
             \* is when the POST is issued
             body == [text |-> SavePostBody(save, data), message |-> data.message]
         IN
         IF ans THEN [s1 EXCEPT !.pc = "post", !.posts = @ + 1,
                                !.posted = Append(@, body)]
         ELSE CASE save.cbs = "none" ->
                      [s1 EXCEPT !.pc = "post", !.posts = @ + 1,
                                 !.posted = Append(@, body)]
                [] save.cbs = "safe" ->
                      [s1 EXCEPT !.errCb = @ + 1, !.pc = "post", !.posts = @ + 1,
                                 !.posted = Append(@, body)]
                [] OTHER ->   \* errorCallback() throws reading error.response
                      [s1 EXCEPT !.errCb = @ + 2, !.pc = "done",
                                 !.recorded = Append(@, "recordFailure")]
    /\ data' = IF ~ans /\ save.cbs # "none" THEN SaveErrorCallback(data) ELSE data
    /\ UNCHANGED <<variant, handler, component, pc, call, sends, http, brk,
                   invoked, start, turnNo>>

\* the save POST settles
SaveHttpReturns(ok) ==
    /\ save.pc = "post"
    /\ save' =
         IF ok
         THEN [save EXCEPT !.pc = "done",
                           !.recorded = Append(@, "recordSuccess"),
                           !.okCb = IF save.cbs = "none" THEN @ ELSE @ + 1]
         ELSE [save EXCEPT !.pc = "done",
                           !.recorded = Append(@, "recordFailure"),
                           !.errCb = IF save.cbs = "none" THEN @ ELSE @ + 1]
    /\ data' = IF ~ok /\ save.cbs # "none" THEN SaveErrorCallback(data) ELSE data
    /\ UNCHANGED <<variant, handler, component, pc, call, sends, http, brk,
                   invoked, start, turnNo>>

\* a faulty turn end that hands the conversation back to the backend: C37 must
\* notice it
EndTurn_ResetsOwner ==
    /\ pc = "done"
    /\ save.pc \in {"none", "done"}
    /\ data' = [data EXCEPT !.message = Undef, !.agent_transfer = FALSE,
                            !.via_webhook = FALSE, !.status = "undefined",
                            !.shape = "ok", !.owner = "easysystem"]
    /\ start' = data'
    /\ handler' = "none"
    /\ component' = "none"
    /\ pc' = "idle"
    /\ call' = NoCall
    /\ sends' = <<>>
    /\ http' = <<>>
    /\ brk' = <<>>
    /\ invoked' = {}
    /\ save' = NoSave
    /\ UNCHANGED <<variant, turnNo>>

\* the turn is over: the platform keeps the session and drops the turn object
EndTurn ==
    /\ pc = "done"
    /\ save.pc \in {"none", "done"}
    /\ data' = [data EXCEPT !.message = Undef, !.agent_transfer = FALSE,
                            !.via_webhook = FALSE, !.status = "undefined",
                            !.shape = "ok"]
    /\ start' = data'
    /\ handler' = "none"
    /\ component' = "none"
    /\ pc' = "idle"
    /\ call' = NoCall
    /\ sends' = <<>>
    /\ http' = <<>>
    /\ brk' = <<>>
    /\ invoked' = {}
    /\ save' = NoSave
    /\ UNCHANGED <<variant, turnNo>>

Init ==
    /\ variant \in Variants
    /\ \E o \in Owners, bu \in BusinessUnits : data = FreshData(o, bu)
    /\ start = data
    /\ handler = "none"
    /\ component = "none"
    /\ pc = "idle"
    /\ call = NoCall
    /\ sends = <<>>
    /\ http = <<>>
    /\ brk = <<>>
    /\ invoked = {}
    /\ save = NoSave
    /\ turnNo = 0

Next ==
    \/ on_client_event
    \/ on_event
    \/ \E m \in Messages, shape \in SessionShapes : on_user_message(m, shape)
    \/ \E m \in Messages, shape \in SessionShapes : on_bot_message(m, shape)
    \/ \E comp \in Components, shape \in {"ok", "noBotUserSession"} :
          on_webhook(comp, shape)
    \/ \E ans \in BOOLEAN : BreakerAnswers(ans)
    \/ \E resp \in Outcomes : HttpReturns(resp)
    \/ \E ans \in BOOLEAN : SaveBreakerAnswers(ans)
    \/ \E ok \in BOOLEAN : SaveHttpReturns(ok)
    \/ EndTurn

Spec == Init /\ [][Next]_vars

-----------------------------------------------------------------------------
(* What a finished turn shows *)

TurnDone == pc = "done"

SendApis(out) == {out[j].api : j \in DOMAIN out}

\* the breaker answered "open" to a canExecute of the main continuation
CircuitOpen == \E i \in DOMAIN brk : brk[i].op = "canExecute" /\ ~brk[i].ans

\* a Backend Call of the turn failed: circuit open, non-2xx, timeout or missing data
CallFailed ==
    \/ CircuitOpen
    \/ \E i \in DOMAIN http : http[i].res \in FailKinds \cup {"malformed"}

\* the POSTs of the two script-mode (stash) intents
StashPost(i) ==
    /\ http[i].phase = "intent"
    /\ http[i].text \in {RequestText(g) : g \in SCRIPT_MODE}

TrackingPost(i) ==
    /\ http[i].phase = "intent"
    /\ http[i].text = RequestText("package_tracking_handover")

\* C1: failure convergence.  When a turn whose Backend Call failed (circuit open,
\* non-2xx, timeout, response without data) completes, data.agent_transfer is true
\* and UserSession.owner is 'kore'.
C1_FailureConvergence ==
    TurnDone /\ CallFailed => data.agent_transfer /\ data.owner = "kore"

\* C2: transfer precedence.  When the response a handler interprets has both
\* transfer and endConversation set, the finished turn took the transfer path only:
\* agent_transfer and BotUserSession.transfer are set, owner is 'kore', the hand-off
\* went out, no end-of-conversation flag was written and nothing was relayed with
\* sendUserMessage.
C2_TransferPrecedence ==
    TurnDone /\ (\E i \in DOMAIN http :
                    /\ http[i].phase \in {"user", "intent"}
                    /\ http[i].res = "ok"
                    /\ http[i].transfer /\ http[i].endConversation)
    => /\ data.agent_transfer /\ data.transfer /\ data.owner = "kore"
       /\ "sendBotMessage" \in SendApis(sends)
       /\ "sendUserMessage" \notin SendApis(sends)
       /\ data.endConversationFromEasySystem = start.endConversationFromEasySystem
       /\ data.endConversationFromEasySystema = start.endConversationFromEasySystema

\* C3: script-stash non-send.  A webhook turn of a stash intent (tracking, return
\* status) that received a response calls neither sendUserMessage nor sendBotMessage.
C3_StashNonSend ==
    TurnDone /\ handler = "on_webhook"
             /\ (\E i \in DOMAIN http : StashPost(i) /\ http[i].res = "ok")
    => SendApis(sends) \cap {"sendUserMessage", "sendBotMessage"} = {}

\* C4: stash intents force Platform ownership.  After a webhook turn of a stash
\* intent completes, UserSession.owner is 'kore', whatever the starting owner and
\* the backend outcome.
C4_StashForcesKore ==
    TurnDone /\ handler = "on_webhook" /\ (\E i \in DOMAIN http : StashPost(i))
    => data.owner = "kore"

\* C5: Scenario D.  When the tracking webhook's backend send call fails (timeout,
\* network error, non-2xx), the turn ends with render = 'text/plain', the stashed
\* render text equal to the fallback apology, and owner 'kore'.
C5_TrackingFallback ==
    TurnDone /\ handler = "on_webhook" /\ component = "easySystemHook"
             /\ (\E i \in DOMAIN http : TrackingPost(i) /\ http[i].res \in FailKinds)
    => /\ data.render = "text/plain"
       /\ data.renderr = TrackingApology
       /\ data.owner = "kore"

\* C6: guard skip.  An on_user_message / on_bot_message turn whose businessUnit is
\* empty or missing, or whose message is missing, empty or white space only, makes
\* no backend call and no breaker query, changes nothing of the turn object and the
\* session, and relays the turn exactly once: sendBotMessage for on_user_message,
\* sendUserMessage for on_bot_message.
C6_GuardSkip ==
    /\ handler \in {"on_user_message", "on_bot_message"}
    /\ start.shape = "ok"
    /\ \/ start.businessUnit = ""
       \/ start.message \in {Undef, <<>>}
       \/ \A k \in DOMAIN start.message : start.message[k] = " "
    => /\ TurnDone
       /\ http = <<>> /\ brk = <<>> /\ save = NoSave
       /\ data = start
       /\ Len(sends) = 1
       /\ sends[1].api = IF handler = "on_user_message"
                         THEN "sendBotMessage" ELSE "sendUserMessage"
       /\ sends[1].message = start.message

C6_Witness ==
    /\ TurnDone /\ handler = "on_bot_message"
    /\ start.businessUnit = "C" /\ start.message = <<" ">>
    /\ Len(sends) = 1 /\ sends[1].api = "sendUserMessage"

\* C7: Scenario A.  In an on_user_message turn that passes the guards while the
\* Platform owns the conversation, no POST goes to sendMessage, the message is
\* relayed unchanged with sendBotMessage, and owner and agent_transfer stay as they
\* were, at every point of the transcript save and whatever its outcome.
C7_PlatformOwnsRelay ==
    /\ handler = "on_user_message"
    /\ start.shape = "ok"
    /\ start.businessUnit \in {"C", "Q", "SA"}
    /\ Truthy(start.message) /\ Trim(start.message) # <<>>
    /\ start.owner # "easysystem"
    => /\ TurnDone
       /\ \A i \in DOMAIN http : http[i].url # "sendMessage"
       /\ Len(sends) = 1
       /\ sends[1].api = "sendBotMessage"
       /\ sends[1].message = start.message
       /\ data.message = start.message
       /\ data.owner = start.owner
       /\ data.agent_transfer = start.agent_transfer

C7_Witness ==
    /\ handler = "on_user_message" /\ start.owner = "kore"
    /\ start.message = <<"hi">>
    /\ save.pc = "done" /\ save.recorded = <<"recordFailure">>
    /\ Len(sends) = 1 /\ sends[1].api = "sendBotMessage"

\* C8: Scenario B.  An on_user_message turn with owner 'easysystem' whose send call
\* succeeds with transfer = false and endConversation = false relays the backend's
\* text with sendUserMessage (data.message is the response text), leaves the owner
\* 'easysystem' and does not set agent_transfer.
C8_BackendOwnsRelay ==
    TurnDone /\ handler = "on_user_message" /\ start.owner = "easysystem"
    => \A i \in DOMAIN http :
          /\ http[i].phase = "user" /\ http[i].res = "ok"
          /\ ~http[i].transfer /\ ~http[i].endConversation
          => /\ Len(sends) = 1
             /\ sends[1].api = "sendUserMessage"
             /\ sends[1].message = http[i].rtext
             /\ data.message = http[i].rtext
             /\ data.owner = "easysystem"
             /\ ~data.agent_transfer

C8_Witness ==
    /\ TurnDone /\ handler = "on_user_message" /\ start.owner = "easysystem"
    /\ Len(http) = 1 /\ http[1].phase = "user" /\ http[1].res = "ok"
    /\ ~http[1].transfer /\ ~http[1].endConversation
    /\ http[1].rtext = <<"Found">> /\ data.message = <<"Found">>
    /\ Len(sends) = 1 /\ sends[1].api = "sendUserMessage"

\* C9: end of conversation on the user-message path.  An on_user_message turn with
\* owner 'easysystem' whose response has endConversation = true and transfer = false
\* ends with owner 'kore' and the backend's final text relayed to the user.
C9_EndConversationHandsBack ==
    TurnDone /\ handler = "on_user_message" /\ start.owner = "easysystem"
    => \A i \in DOMAIN http :
          /\ http[i].phase = "user" /\ http[i].res = "ok"
          /\ ~http[i].transfer /\ http[i].endConversation
          => /\ data.owner = "kore"
             /\ Len(sends) = 1
             /\ sends[1].api = "sendUserMessage"
             /\ sends[1].message = http[i].rtext

\* C10: a response-level transfer wins immediately.  For a safeEasySystemCall whose
\* POST succeeded with transfer = true, originalCallback is never invoked; the owner
\* is 'kore', data.agent_transfer and BotUserSession.transfer are true, and the
\* hand-off has been sent with sendBotMessage.
C10_TransferWinsImmediately ==
    \A i \in DOMAIN http :
        http[i].style = "safe" /\ http[i].res = "ok" /\ http[i].transfer
        => /\ i \notin invoked
           /\ data.owner = "kore"
           /\ data.agent_transfer
           /\ data.transfer
           /\ \E j \in DOMAIN sends :
                 /\ sends[j].api = "sendBotMessage"
                 /\ sends[j].agent_transfer /\ sends[j].owner = "kore"

C10_Witness ==
    /\ TurnDone /\ handler = "on_webhook"
    /\ Len(http) = 2 /\ http[2].style = "safe" /\ http[2].phase = "intent"
    /\ http[2].res = "ok" /\ http[2].transfer /\ http[2].endConversation
    /\ invoked = {1}

\* the direct-send intents: their integration posts one instruction and relays the
\* answer to the user
DirectSendIntents ==
    {"Cancel_item", "Cancel_Entire_order", "Refund_Check", "Exchange_Item",
     "change_shipping_address", "manage_existing_users", "add_new_user_handler",
     "reset_password", "reset_password_handler", "invoice_or_packing_slip",
     "modify_shipping_location", "account_id_handler", "missing_item"}

\* the POST of a direct-send intent
DirectPost(i) ==
    /\ http[i].phase = "intent"
    /\ http[i].text \in {RequestText(g) : g \in DirectSendIntents}

\* some send of the turn carried the text the backend answered in POST i
Relayed(i) == \E j \in DOMAIN sends : sends[j].message = http[i].rtext

\* C11: direct-send intents leave ownership alone.  When a webhook turn whose
\* direct-send intent was answered successfully with transfer = false and
\* endConversation = false completes, the answered text has been sent to the user
\* and UserSession.owner is what it was before the turn.
C11_DirectSendKeepsOwner ==
    \A i \in DOMAIN http :
        (/\ TurnDone
         /\ handler = "on_webhook"
         /\ DirectPost(i) /\ http[i].res = "ok"
         /\ ~http[i].transfer /\ ~http[i].endConversation)
        => Relayed(i) /\ data.owner = start.owner

\* C12: direct-send intents apply the end-of-conversation rule.  When a webhook
\* turn whose direct-send intent was answered successfully with endConversation =
\* true and transfer = false completes, UserSession.owner is "kore" and the
\* answered text has been relayed to the user.
C12_DirectSendEndConversation ==
    \A i \in DOMAIN http :
        (/\ TurnDone
         /\ handler = "on_webhook"
         /\ DirectPost(i) /\ http[i].res = "ok"
         /\ http[i].endConversation /\ ~http[i].transfer)
        => data.owner = "kore" /\ Relayed(i)

\* C13: webhook intents always reach the backend.  When a webhook turn in which
\* the breaker permitted every call and the context POST succeeded without a
\* transfer flag completes, a POST to the sendMessage endpoint has been issued in
\* the turn.
C13_WebhookReachesBackend ==
    (/\ TurnDone
     /\ handler = "on_webhook"
     /\ ~CircuitOpen
     /\ \E i \in DOMAIN http :
           /\ http[i].phase = "ctx" /\ http[i].res = "ok" /\ ~http[i].transfer)
    => \E j \in DOMAIN http : http[j].url = "sendMessage"

\* the breaker was asked canExecute for service key and answered true
Permitted(key) ==
    \E k \in DOMAIN brk :
        brk[k].op = "canExecute" /\ brk[k].key = key /\ brk[k].ans

\* C14: breaker gating of every backend call.  Every POST to the sendMessage or
\* contextLoad endpoint was preceded by a canExecute for the call's service that
\* answered true, and a call whose canExecute answered false made no POST.
C14_BreakerGating ==
    /\ \A i \in DOMAIN http : Permitted(http[i].key)
    /\ Len(http) <= Cardinality({k \in DOMAIN brk :
                                    brk[k].op = "canExecute" /\ brk[k].ans})

\* the context push of the turn failed: its breaker was open, or its POST was
\* answered non-2xx or timed out
ContextFailed ==
    \/ \E k \in DOMAIN brk :
          /\ brk[k].op = "canExecute" /\ ~brk[k].ans
          /\ brk[k].key = "easysystem-context-api"
    \/ \E i \in DOMAIN http : http[i].phase = "ctx" /\ http[i].res \in FailKinds

\* C15: context-sync failures are swallowed.  When a webhook turn whose context
\* push failed completes, the intent's POST to the sendMessage endpoint has been
\* issued, and unless that POST itself failed or asked for a transfer,
\* agent_transfer is not set and no hand-off message has been sent.
C15_ContextFailureSwallowed ==
    (TurnDone /\ handler = "on_webhook" /\ ContextFailed)
    => /\ \E j \in DOMAIN http : http[j].url = "sendMessage"
       /\ (\A j \in DOMAIN http :
              http[j].url = "sendMessage" => http[j].res = "ok" /\ ~http[j].transfer)
          => ~data.agent_transfer /\ "sendBotMessage" \notin SendApis(sends)

\* C16: handler exceptions converge.  When on_user_message, on_bot_message or
\* on_webhook throws synchronously because the session lacks UserSession or
\* BotUserSession, the handler returns normally, the turn is complete with
\* data.agent_transfer = true, UserSession.owner = "kore" if a UserSession
\* exists, and exactly one SDK send, a sendBotMessage carrying a fixed hold
\* message; no backend call is made and the platform callback is not called twice.
C16_HandlerException ==
    (/\ handler \in {"on_user_message", "on_bot_message", "on_webhook"}
     /\ start.shape # "ok")
    => /\ TurnDone
       /\ data.agent_transfer
       /\ (start.shape # "noUserSession" => data.owner = "kore")
       /\ Len(sends) = 1
       /\ sends[1].api = "sendBotMessage"
       /\ sends[1].message \in {HoldMsg, ExpertMsgSBA}
       /\ sends[1].agent_transfer
       /\ http = <<>>

\* a webhook turn of a session without BotUserSession has been caught and handed
\* to an agent
C16_Witness ==
    /\ TurnDone
    /\ handler = "on_webhook"
    /\ start.shape = "noBotUserSession"
    /\ start.owner = "easysystem"
    /\ data.owner = "kore"
    /\ data.agent_transfer
    /\ Len(sends) = 1

\* C17: a save failure is fully absorbed.  Every step of the transcript save,
\* whether the breaker permits or denies it and whether its POST succeeds or
\* fails, leaves the turn object (message, owner, agent_transfer, session flags),
\* the SDK sends, the main continuation and its backend calls as they were, and
\* the save POST is issued at most once.
C17_SaveAbsorbed ==
    [][(save.pc \in {"can", "post"} /\ save' # save)
       => /\ data' = data
          /\ sends' = sends
          /\ pc' = pc /\ call' = call
          /\ http' = http /\ brk' = brk
          /\ save'.posts <= 1]_vars

\* a turn completed as a plain relay although its save was denied by the breaker
\* and its POST then failed
C17_Witness ==
    /\ TurnDone
    /\ handler = "on_user_message"
    /\ save.pc = "done"
    /\ save.canExec = <<FALSE>>
    /\ save.recorded = <<"recordFailure">>
    /\ save.errCb > 0
    /\ ~data.agent_transfer
    /\ SendApis(sends) = {"sendBotMessage"}

\* the transcript save of the turn has been started and has not settled
SaveInFlight == save.pc \in {"can", "post"}

\* C18: the transcript save is fire-and-forget.  In on_user_message and
\* on_bot_message, whatever the position of the save, a pending step of the
\* primary relay (the breaker's answer, the settling of the backend POST) can be
\* taken: the relay never waits for the save, so the turn completes while the
\* save is in flight and even if the save never returns.
C18_SaveFireAndForget ==
    (handler \in {"on_user_message", "on_bot_message"} /\ SaveInFlight)
    => /\ pc \in {"can", "post", "done"}
       /\ pc = "can" => ENABLED (\E ans \in BOOLEAN : BreakerAnswers(ans))
       /\ pc = "post" => ENABLED (\E resp \in Outcomes : HttpReturns(resp))

\* the backend answered the user's message and the turn completed while the save
\* POST was still in flight
C18_Witness ==
    /\ TurnDone
    /\ handler = "on_user_message"
    /\ start.owner = "easysystem"
    /\ save.pc = "post"
    /\ Len(http) = 1 /\ http[1].res = "ok"
    /\ Len(sends) = 1

\* how many breaker notifications of kind op the main continuation has made
Notified(op) == Cardinality({k \in DOMAIN brk : brk[k].op = op})

\* C19: breaker outcome notification.  When a turn completes, every POST of the
\* turn that was answered 2xx has been followed by a recordSuccess and every POST
\* that failed (timeout, non-2xx) by a recordFailure.
C19_BreakerNotified ==
    TurnDone
    => /\ Cardinality({i \in DOMAIN http : http[i].res \in {"ok", "malformed"}})
             <= Notified("recordSuccess")
       /\ Cardinality({i \in DOMAIN http : http[i].res \in FailKinds})
             <= Notified("recordFailure")

\* C20: ownership invariant.  Starting from an owner in {"kore", "easysystem"},
\* after any sequence of turns of the five handlers with arbitrary backend
\* outcomes, UserSession.owner is one of "kore" and "easysystem" at the end of
\* every turn (and between turns).
C20_OwnershipInvariant ==
    pc \in {"done", "idle"} => data.owner \in Owners

\* a turn that moved the conversation from one owner to the other has completed
C20_Witness ==
    /\ TurnDone
    /\ handler = "on_webhook"
    /\ start.owner = "kore"
    /\ data.owner = "easysystem"
    /\ \E i \in DOMAIN http : http[i].phase = "intent" /\ http[i].res = "ok"

\* the fixed hold, hand-off and apology strings of the variants
FixedMessages ==
    {HoldMsg, ExpertMsgSBA, ExpertMsgLegacy, SorryMsg, TrackingApology, ReturnApology}

\* the turn ended on a failure path: the handler threw, the last POST failed, or
\* the breaker denied a call that nothing followed
EndedInFailure ==
    \/ start.shape # "ok"
    \/ http # <<>> /\ http[Len(http)].res \in FailKinds
    \/ /\ brk # <<>>
       /\ brk[Len(brk)].op = "canExecute" /\ ~brk[Len(brk)].ans
       /\ ~(/\ brk[Len(brk)].key = "easysystem-context-api"
            /\ \E i \in DOMAIN http : http[i].phase = "intent")

\* C21: no raw error reaches the user.  When a turn that ended on a failure path
\* completes, what its last delivery shows the user is one of the fixed hold,
\* hand-off or apology strings of the variant (as the message, or for a stash
\* intent's acknowledgement as the stashed fallback text), and no delivery of the
\* turn carries the text of the error.
C21_NoRawError ==
    (TurnDone /\ EndedInFailure)
    => /\ sends # <<>>
       /\ \/ sends[Len(sends)].message \in FixedMessages
          \/ /\ sends[Len(sends)].api = "sendWebhookResponse"
             /\ data.renderr \in FixedMessages
       /\ \A j \in DOMAIN sends : sends[j].message # ErrorText

\* a user-message turn whose POST timed out has completed with the hold message
C21_Witness ==
    /\ TurnDone
    /\ handler = "on_user_message"
    /\ Len(http) = 1 /\ http[1].res = "timeout"
    /\ Len(sends) = 1 /\ sends[1].message = HoldMsg

-----------------------------------------------------------------------------
(* buildEasySystemContextPayload: the derived loggedIn *)

\* the JavaScript values a consulted session field can hold: undefined, null, the
\* empty string, false, true, and a non-empty string
JsValues == {"undefined", "null", "empty", "false", "true", "string"}

\* Boolean(v): false for undefined, null, "", false and 0
Boolean(v) == v \notin {"undefined", "null", "empty", "false", "zero"}

\* a || b
JsOr(a, b) == IF Boolean(a) THEN a ELSE b

\* pickFirst(...vals): the first value that is not undefined, null or ""
RECURSIVE pickFirst(_)
pickFirst(vals) ==
    IF vals = <<>> THEN "undefined"
    ELSE IF Head(vals) \notin {"undefined", "null", "empty"} THEN Head(vals)
    ELSE pickFirst(Tail(vals))

\* the session fields the function consults: the four isLoggedIn / loggedIn fields,
\* and the EMAIL and CUSTOMER_NUMBER that part_001 resolves (undefined or a string)
SessionLogins ==
    [botIsLoggedIn : JsValues, userIsLoggedIn : JsValues,
     profileIsLoggedIn : JsValues, customLoggedIn : JsValues,
     EMAIL : {"undefined", "string"}, CUSTOMER_NUMBER : {"undefined", "string"}]

\* the fields consulted, in the order of the pickFirst call
ConsultedFields(s) ==
    <<s.botIsLoggedIn, s.userIsLoggedIn, s.profileIsLoggedIn, s.customLoggedIn>>
    \o (IF variant = "QuillSBA" THEN <<JsOr(s.EMAIL, s.CUSTOMER_NUMBER)>> ELSE <<>>)

\* body.loggedIn of the payload: String(Boolean(pickFirst(...)))
buildEasySystemContextPayload(s) ==
    IF Boolean(pickFirst(ConsultedFields(s))) THEN "true" ELSE "false"

PayloadInit ==
    /\ variant \in {"SBA", "QuillSBA"}
    /\ data \in SessionLogins
    /\ start = data
    /\ handler = "none"
    /\ component = "none"
    /\ pc = "idle"
    /\ call = NoCall
    /\ sends = <<>>
    /\ http = <<>>
    /\ brk = <<>>
    /\ invoked = {}
    /\ save = NoSave
    /\ turnNo = 0

\* the payload is built for the context push
BuildContextPayload ==
    /\ pc = "idle"
    /\ http' = <<[url |-> "contextLoad", loggedIn |-> buildEasySystemContextPayload(data)]>>
    /\ pc' = "done"
    /\ UNCHANGED <<variant, data, handler, component, call, sends, brk, invoked,
                   save, start, turnNo>>

PayloadSpec == PayloadInit /\ [][BuildContextPayload]_vars

\* C22: derived loggedIn.  The loggedIn value of the payload is "true" if and only
\* if at least one of the identity-proof fields the function consults is present
\* and truthy.
C22_DerivedLoggedIn ==
    http # <<>>
    => (http[1].loggedIn = "true"
        <=> \E k \in DOMAIN ConsultedFields(start) :
                Boolean(ConsultedFields(start)[k]))

-----------------------------------------------------------------------------
(* Claims about deliveries and completion *)

\* the turn-completing calls made with the turn's data: the SDK sends and the
\* direct invocations of the platform callback
Deliveries == DOMAIN sends

\* C23: at most one delivery per turn.  In every state of every turn, at most one
\* turn-completing call (sendBotMessage, sendUserMessage, sendWebhookResponse or
\* the platform callback itself) has been made with the turn's data, and once a
\* turn has escalated through triggerAgentTransfer no further backend call is
\* pending.
C23_AtMostOneDelivery ==
    /\ Cardinality(Deliveries) <= 1
    /\ (\E j \in DOMAIN sends : sends[j].api = "sendBotMessage" /\ sends[j].agent_transfer)
       => pc \notin {"can", "post"}

\* C24: message turns always complete.  When an on_user_message or on_bot_message
\* invocation and all its continuations have run to their end (every HTTP call
\* has returned or failed), a turn-completing SDK call (sendBotMessage or
\* sendUserMessage) has been made, so that the platform's done callback can fire.
C24_MessageTurnCompletes ==
    (TurnDone /\ handler \in {"on_user_message", "on_bot_message"})
    => \E j \in DOMAIN sends : sends[j].api \in {"sendBotMessage", "sendUserMessage"}

\* C25: webhook turns always complete.  When an on_webhook invocation and all its
\* continuations have run to their end, some turn-completing call of the turn
\* (sendWebhookResponse, sendUserMessage, sendBotMessage or callback(null, data))
\* was handed the platform callback that on_webhook was given.
C25_WebhookTurnCompletes ==
    (TurnDone /\ handler = "on_webhook")
    => \E j \in DOMAIN sends : sends[j].cb = "platform"

\* C26: context before intent.  In every webhook turn, when the intent's POST to
\* the sendMessage endpoint has been issued, every context POST to the contextLoad
\* endpoint of the turn was issued before it and has completed (returned or
\* failed): the two are never in flight together.
C26_ContextBeforeIntent ==
    \A i, k \in DOMAIN http :
        (handler = "on_webhook" /\ http[i].phase = "intent" /\ http[k].phase = "ctx")
        => k < i /\ http[k].res # "pending"

\* the intent's POST is in flight after a context POST that failed
C26_Witness ==
    /\ handler = "on_webhook"
    /\ Len(http) = 2
    /\ http[1].phase = "ctx" /\ http[1].res \in FailKinds
    /\ http[2].phase = "intent" /\ http[2].res = "pending"

\* C27: hand-off message content.  When a turn whose user-message or intent POST
\* was answered with transfer = true completes, every delivery that carries the
\* hand-off (agent_transfer set) has a non-empty message that is the backend's
\* text or one of the variant's fixed hand-off strings, whatever the response
\* text was; in particular it is not the user's own inbound message.
C27_HandoffMessage ==
    \A i \in DOMAIN http, j \in DOMAIN sends :
        (/\ TurnDone
         /\ http[i].phase \in {"user", "intent"}
         /\ http[i].res = "ok" /\ http[i].transfer
         /\ sends[j].agent_transfer)
        => /\ Truthy(sends[j].message)
           /\ sends[j].message \in FixedMessages \cup {http[i].rtext}

\* C28: save under an open breaker.  When canExecute("easysystem-save-api") has
\* answered false for the save of the turn, no POST to the saveMessage endpoint is
\* issued, the error callback has been invoked at most once and the success
\* callback not at all.
C28_SaveUnderOpenBreaker ==
    (save.canExec # <<>> /\ ~save.canExec[1])
    => /\ save.posts = 0
       /\ save.errCb <= 1
       /\ save.okCb = 0

\* the turn's message passed the businessUnit and message guards of a well-formed
\* session
PassedGuards ==
    /\ start.shape = "ok"
    /\ ~BusinessUnitMissing(start)
    /\ ~MessageMissing(start)

\* the transcript saves the turn has issued with a role
SavesIssued(role) == IF save.pc # "none" /\ save.role = role THEN 1 ELSE 0

\* C29: transcript saves per turn.  An on_user_message turn that passes the guards
\* issues exactly one save, with role "user", for either owner; an on_bot_message
\* turn that passes the guards issues exactly one save with role "assistant" when
\* the owner is "kore" and none when the owner is "easysystem"; a webhook turn
\* issues no save; and no save posts more than once.
C29_SavesPerTurn ==
    /\ (handler = "on_user_message" /\ PassedGuards)
       => SavesIssued("user") = 1 /\ SavesIssued("assistant") = 0
    /\ (handler = "on_bot_message" /\ PassedGuards /\ start.owner = "kore")
       => SavesIssued("assistant") = 1 /\ SavesIssued("user") = 0
    /\ (handler = "on_bot_message" /\ PassedGuards /\ start.owner = "easysystem")
       => save.pc = "none"
    /\ handler = "on_webhook" => save.pc = "none"
    /\ save.posts <= 1

\* a bot message of a conversation owned by "kore" has been relayed and its save,
\* with role "assistant", has settled
C29_Witness ==
    /\ TurnDone
    /\ handler = "on_bot_message"
    /\ start.owner = "kore"
    /\ save.pc = "done" /\ save.role = "assistant" /\ save.posts = 1
    /\ SendApis(sends) = {"sendUserMessage"}

\* the webhook of the turn is not routed: its component name is not in the
\* variant's dispatch table, or (Dotcom variants) the business unit is not "C"
Unrouted ==
    /\ start.shape = "ok"
    /\ CASE variant \in {"Dotcom", "DotcomLegacy"} ->
               start.businessUnit # "C" \/ webhookMap(component) = "none"
         [] variant = "SBA" -> webhookMap(component) = "none"
         [] OTHER -> component # "easySystemHook" /\ webhookMap(component) = "none"

\* C30: unrouted webhooks are handed back untouched.  An on_webhook turn whose
\* webhook is not routed is complete as soon as the handler returns, with no
\* backend call and no breaker query, owner, agent_transfer and message as they
\* were, and exactly one delivery, a sendWebhookResponse.
C30_UnroutedWebhook ==
    (handler = "on_webhook" /\ Unrouted)
    => /\ TurnDone
       /\ http = <<>> /\ brk = <<>>
       /\ data.owner = start.owner
       /\ data.agent_transfer = start.agent_transfer
       /\ data.message = start.message
       /\ Len(sends) = 1
       /\ sends[1].api = "sendWebhookResponse"

\* a webhook of a component no table holds has been acknowledged in the Dotcom
\* variant for business unit "C"
C30_Witness ==
    /\ TurnDone
    /\ handler = "on_webhook"
    /\ variant = "Dotcom"
    /\ component = "UnmappedHook"
    /\ start.businessUnit = "C"
    /\ Len(sends) = 1 /\ sends[1].api = "sendWebhookResponse"

-----------------------------------------------------------------------------
(* buildEasySystemContextPayload: the entityMap *)

\* the entries of entityMap and how many candidate source fields each has
EntityKeys ==
    {"ACCOUNT_NUMBER", "DIVISION", "USER_ID", "CUSTOMER_NUMBER", "ORDER_NUMBER",
     "EMAIL", "ZIPCODE"}

CandidateCount(key) ==
    CASE key \in {"ACCOUNT_NUMBER", "CUSTOMER_NUMBER", "EMAIL"} -> 5
      [] key \in {"DIVISION", "ORDER_NUMBER"} -> 4
      [] key = "USER_ID" -> 6
      [] OTHER -> 10

\* the JavaScript values a candidate field can hold: undefined, null, "", the
\* number 0, false, and two non-empty strings
EntityValues == {"undefined", "null", "empty", "zero", "false", "A", "B"}

\* String(v)
String(v) == IF v = "zero" THEN "0" ELSE v

\* the candidate fields of one entity, in the listed order
EntitySources ==
    UNION {[key : {k},
            candidates : UNION {[1..n -> EntityValues] :
                                   n \in 1..(IF CandidateCount(k) < MaxCandidates
                                             THEN CandidateCount(k)
                                             ELSE MaxCandidates)}] :
           k \in EntityKeys}

\* ...(X ? { X: String(X) } : {}) for X = pickFirst(candidates)
EntityMapEntry(candidates) ==
    LET X == pickFirst(candidates) IN
    IF Boolean(X) THEN [present |-> TRUE, value |-> String(X)]
    ELSE [present |-> FALSE, value |-> "undefined"]

EntityInit ==
    /\ variant = "QuillSBA"
    /\ data \in EntitySources
    /\ start = data
    /\ handler = "none"
    /\ component = "none"
    /\ pc = "idle"
    /\ call = NoCall
    /\ sends = <<>>
    /\ http = <<>>
    /\ brk = <<>>
    /\ invoked = {}
    /\ save = NoSave
    /\ turnNo = 0

\* the entityMap entry is resolved for the context push
ResolveEntity ==
    /\ pc = "idle"
    /\ http' = <<[url |-> "contextLoad", key |-> data.key,
                  entry |-> EntityMapEntry(data.candidates)]>>
    /\ pc' = "done"
    /\ UNCHANGED <<variant, data, handler, component, call, sends, brk, invoked,
                   save, start, turnNo>>

EntitySpec == EntityInit /\ [][ResolveEntity]_vars

\* the positions of the candidates that are not undefined, null or ""
NonEmpty(candidates) ==
    {k \in DOMAIN candidates : candidates[k] \notin {"undefined", "null", "empty"}}

\* C31: entityMap resolution.  An entity appears in entityMap if and only if at
\* least one of its candidate source fields is non-empty (not undefined, null or
\* ""), and its value is then the string form of the first non-empty candidate in
\* the listed order.
C31_EntityResolution ==
    http # <<>>
    => LET c == start.candidates
           first == CHOOSE k \in NonEmpty(c) : \A j \in NonEmpty(c) : k <= j
       IN /\ http[1].entry.present <=> NonEmpty(c) # {}
          /\ http[1].entry.present => http[1].entry.value = String(c[first])

-----------------------------------------------------------------------------
(* Claims about the circuit breaker's bookkeeping *)

\* every breaker-guarded call of the turn was permitted and every POST of the turn
\* went through safeEasySystemCall
OnlySafePosts ==
    /\ \A i \in DOMAIN http : http[i].style = "safe"
    /\ \A k \in DOMAIN brk : brk[k].op = "canExecute" => brk[k].ans

Recorded == {k \in DOMAIN brk : brk[k].op \in {"recordSuccess", "recordFailure"}}

\* C32: for every POST attempted through safeEasySystemCall exactly one of
\* recordSuccess and recordFailure is called, also when the outcome callback is
\* missing or throws after a successful response.
C32_OneOutcomePerPost ==
    (TurnDone /\ OnlySafePosts) => Cardinality(Recorded) = Len(http)

\* the canExecute call that opened the call whose outcome is recorded at position
\* k: the last one before k
Opening(k) ==
    CHOOSE j \in 1..(k - 1) :
        /\ brk[j].op = "canExecute"
        /\ \A m \in (j + 1)..(k - 1) : brk[m].op # "canExecute"

\* C33: the service key passed to recordSuccess or recordFailure is the service
\* key that was passed to canExecute for the same call.
C33_KeyConsistency ==
    \A k \in Recorded :
        /\ \E j \in 1..(k - 1) : brk[j].op = "canExecute"
        /\ brk[k].key = brk[Opening(k)].key

\* C34: recordFailure is called for a service only after a request for it was
\* issued and failed; when canExecute answers false no request is issued and
\* neither recordSuccess nor recordFailure is called for that call.
C34_NoFailureWithoutAttempt ==
    \A k \in Recorded :
        /\ \E j \in 1..(k - 1) : brk[j].op = "canExecute"
        /\ brk[Opening(k)].ans
        /\ brk[k].op = "recordFailure"
           => \E i \in DOMAIN http : http[i].res \in FailKinds

-----------------------------------------------------------------------------
(* Claims about session ownership across turns *)

IntentSucceeded ==
    /\ handler = "on_webhook"
    /\ \E i \in DOMAIN http :
          /\ http[i].url = "sendMessage"
          /\ http[i].res = "ok"
          /\ ~http[i].transfer
          /\ ~http[i].endConversation

\* C36: UserSession.owner changes from kore to easysystem only inside an
\* on_webhook turn whose sendMessage call succeeded with transfer = false and
\* endConversation = false; the other handlers and every failure path never change
\* the owner from kore to easysystem.
C36_BackendOwnershipGranted ==
    (start.owner = "kore" /\ data.owner = "easysystem") => IntentSucceeded

-----------------------------------------------------------------------------
(* Claims about the transcript save racing the backend send *)

\* C38: in an on_user_message turn of a backend-owned session, where the save and
\* the backend send run concurrently on the same turn object, the text posted to
\* saveMessage is the inbound user message in every interleaving, also when the
\* backend response has overwritten data.message before the save POST is issued.
C38_SavedTextRaceFree ==
    (handler = "on_user_message" /\ start.shape = "ok" /\ start.owner = "easysystem")
    => \A i \in DOMAIN save.posted : save.posted[i].text = start.message

\* the backend's answer replaced data.message before the save POST was issued, and
\* the save posted the user's message
C38_Witness ==
    /\ handler = "on_user_message"
    /\ start.owner = "easysystem"
    /\ start.message = <<"hi">>
    /\ save.posted # <<>>
    /\ save.posted[1].message = <<"Found">>
    /\ save.posted[1].text = <<"hi">>

====
